---- MODULE Spec2Model ----
(***************************************************************************)
(* A model of mori-backend: the vote tally of a GameNode (cores.rs), the   *)
(* packed board GameState (cores.rs), the vote handler, the ledger sync    *)
(* loop and the execution dispatcher of Mori (lib.rs) over the prefixed    *)
(* key-value maps of db.rs.                                                *)
(*                                                                         *)
(* Specifications:                                                         *)
(*   SpecNode   one GameNode under a sequence of check_and_add_vote calls  *)
(*   SpecBoard  GameState::from_vec_i8 followed by GameState::to_vec_i8    *)
(*   SpecVote   Mori::handle_vote over the mori_nodes map and the channel  *)
(*   Spec       Mori::sync and Mori::set_cur_height over a growing ledger  *)
(*              of transitions                                             *)
(*   SpecCredits   Mori::sync, handle_credits and the dispatcher over a    *)
(*              growing ledger of records                                  *)
(*   SpecDispatch  Mori::execute_program over the requests of handle_vote  *)
(*              and of the front end                                       *)
(*   SpecFilter TransitionFilter: add_program, add_function, filter_block  *)
(*   SpecStore  the DBMaps as prefixes of one database                     *)
(*   SpecNodes  handle_vote, handle_open and handle_move on one stored     *)
(*              node                                                       *)
(*   SpecRace   handle_vote in its three steps, run by the sync threads    *)
(*   SpecRequest   SpecNode, and MovRequest::from_node on its node         *)
(*   SpecQueue  the sync thread, the dispatcher thread and the front end   *)
(*              on the bounded channel                                     *)
(*   SpecQueueFair  SpecQueue under the scheduling of the threads          *)
(*   SpecResync Mori::sync over a ledger whose get_blocks fails at will    *)
(***************************************************************************)
EXTENDS Integers, Sequences, FiniteSets, TLC

VARIABLES
    node,             \* SpecNode: the GameNode the calls are made on
    last,             \* SpecNode: the last check_and_add_vote call (history)
    vec,              \* SpecBoard: the &[i8] handed to from_vec_i8
    game_state,       \* SpecBoard: the GameState(u128), as 64 two-bit fields
    out_vec,          \* SpecBoard: the Vec<i8> to_vec_i8 returned
    bpc,              \* SpecBoard: position of the round trip
    network_height,   \* Mori::network_height: the row of network_key, if any
    unspent_records,  \* Mori::unspent_records: serial number -> record
    mori_nodes,       \* Mori::mori_nodes: node_id -> GameNode
    filter,           \* Mori::filter: the TransitionFilter
    tx,               \* the mpsc channel of Execution requests (buffer)
    rx_open,          \* the Receiver of the channel is alive
    dispatcher,       \* the dispatcher thread: the request its handler is on
    chain,            \* the ledger: its non-empty blocks, by height
    tip,              \* the ledger: its latest height
    sync,             \* the sync thread: position and locals of Mori::sync
    hist              \* history: what the handlers and the dispatcher did

nodeVars  == <<node, last>>
boardVars == <<vec, game_state, out_vec, bpc>>
storeVars == <<network_height, unspent_records, mori_nodes>>
chanVars  == <<tx, rx_open, dispatcher>>
chainVars == <<chain, tip>>
moriVars  == <<storeVars, filter, chanVars, chainVars, sync, hist>>
vars      == <<nodeVars, boardVars, moriVars>>

(***************************************************************************)
(* Bounds of the model.                                                    *)
(***************************************************************************)
MaxVoters == 5        \* valid_cnt ranges over 0..MaxVoters
MaxCalls  == 5        \* check_and_add_vote calls made on one node
MaxStones == 2        \* non-empty squares of an input board
MaxVoteEvents == 3    \* vote transitions handed to handle_vote
MaxGrowths == 2       \* times the ledger grows
MaxOpens == 2         \* OpenGame requests of the front end
MaxFromHeight == 2    \* set_cur_height is called with 0..MaxFromHeight
MaxFilterNames == 2   \* add_program / add_function calls made on one filter
MaxBatch == 2         \* pairs of one batch_insert, keys of one batch_remove

None == "none"

Senders == {"aleo1a", "aleo1b"}
Movs    == {5, 6, 7}
NodeIds == {1, 2}

\* Vec<u8> legal-move lists a node may carry (GameNode::valid_movs).
MovLists == {<<>>, <<5>>, <<5, 6>>}

\* Vec::contains
Contains(s, x) == \E i \in 1..Len(s) : s[i] = x

(***************************************************************************)
(* cores.rs: Vote, GameNode                                                *)
(***************************************************************************)
Vote(sender, node_id, mov) == [sender |-> sender, node_id |-> node_id, mov |-> mov]

Votes == {Vote(s, n, m) : s \in Senders, n \in NodeIds, m \in Movs}

GameNode(node_id, parent_id, node_type, game_status, valid_cnt, valid_movs, votes) ==
    [node_id     |-> node_id,
     state       |-> 0,
     parent_id   |-> parent_id,
     node_type   |-> node_type,
     game_status |-> game_status,
     valid_cnt   |-> valid_cnt,
     valid_movs  |-> valid_movs,
     votes       |-> votes]

\* A mutation of check_and_add_vote: the valid-move check is dropped.
check_and_add_vote_no_mov_check(self, vote) ==
    LET vote_len == Len(self.votes) + 1
        pushed   == IF vote_len <= self.valid_cnt \div 2
                    THEN [self EXCEPT !.votes = Append(@, vote)]
                    ELSE self
    IN  [node |-> pushed,
         ret  |-> (vote_len >= self.valid_cnt \div 2)
                  /\ self.game_status = 0 /\ self.node_type = 0]

\* A mutation of check_and_add_vote: the length cap on the push is dropped.
check_and_add_vote_no_cap(self, vote) ==
    IF ~Contains(self.valid_movs, vote.mov)
    THEN [node |-> self, ret |-> FALSE]
    ELSE LET vote_len == Len(self.votes) + 1
         IN  [node |-> [self EXCEPT !.votes = Append(@, vote)],
              ret  |-> (vote_len >= self.valid_cnt \div 2)
                       /\ self.game_status = 0 /\ self.node_type = 0]

\* GameNode::check_and_add_vote(&mut self, vote) -> bool; the result is the
\* node after the call and the returned flag.
check_and_add_vote(self, vote) ==
    IF ~Contains(self.valid_movs, vote.mov)
    THEN [node |-> self, ret |-> FALSE]
    ELSE LET vote_len == Len(self.votes) + 1
             pushed   == IF vote_len <= self.valid_cnt \div 2
                         THEN [self EXCEPT !.votes = Append(@, vote)]
                         ELSE self
         IN  [node |-> pushed,
              ret  |-> (vote_len >= self.valid_cnt \div 2)
                       /\ self.game_status = 0 /\ self.node_type = 0]

(***************************************************************************)
(* SpecNode: a GameNode with an empty tally, any node_type, game_status,   *)
(* valid_cnt and valid_movs, under check_and_add_vote calls.               *)
(***************************************************************************)
FreshNodes ==
    {GameNode(1, 0, t, g, n, ms, <<>>) :
        t \in {0, 1}, g \in {0, 1}, n \in 0..MaxVoters, ms \in MovLists}

NoCall == [calls |-> 0, vote |-> None, before |-> None, ret |-> FALSE]

InitNode ==
    /\ node \in FreshNodes
    /\ last = NoCall

IdleNode ==
    /\ node = None
    /\ last = NoCall

CheckAndAddVote(vote) ==
    /\ last.calls < MaxCalls
    /\ LET r == check_and_add_vote(node, vote)
       IN  /\ node' = r.node
           /\ last' = [calls  |-> last.calls + 1,
                       vote   |-> vote,
                       before |-> node,
                       ret    |-> r.ret]
    /\ UNCHANGED <<boardVars, moriVars>>

(***************************************************************************)
(* cores.rs: MovRequest::from_node                                         *)
(***************************************************************************)
\* the for loop of from_node over node.votes[idx..]: votes_map is the
\* HashMap from a mov to the addresses of its Votes
RECURSIVE GroupVotes(_, _, _)
GroupVotes(votes_map, votes, idx) ==
    IF idx > Len(votes)
    THEN votes_map
    ELSE LET v == votes[idx]
         IN  IF idx = 1 \/ v.mov \notin DOMAIN votes_map
             THEN GroupVotes([m \in (DOMAIN votes_map) \cup {v.mov} |->
                                 IF m = v.mov THEN <<v.sender>> ELSE votes_map[m]],
                             votes, idx + 1)
             ELSE GroupVotes([votes_map EXCEPT ![v.mov] = Append(@, v.sender)],
                             votes, idx + 1)

\* MovRequest::from_node(node); votes is votes_map.values(), whose order
\* the HashMap does not fix, kept as the set of the groups
from_node(n) ==
    LET votes_map == GroupVotes([m \in {} |-> <<>>], n.votes, 1)
    IN  [parent_id |-> n.node_id,
         votes     |-> {[mov |-> m, addresses |-> votes_map[m]] : m \in DOMAIN votes_map}]

(***************************************************************************)
(* cores.rs: GameState.  The u128 is kept as its 64 two-bit fields: field  *)
(* i holds bits 2i and 2i+1.                                               *)
(***************************************************************************)
Squares == 64

SquareIdx == 0..(Squares - 1)

\* bitwise or of two two-bit values
Or2(a, b) ==
    LET lo == IF (a % 2 = 1) \/ (b % 2 = 1) THEN 1 ELSE 0
        hi == IF (a \div 2 = 1) \/ (b \div 2 = 1) THEN 2 ELSE 0
    IN  hi + lo

\* the match of from_vec_i8: i8 -> two-bit code (any other value panics)
EncodeSquare(v) ==
    CASE v = 0  -> 0
      [] v = -1 -> 2
      [] v = 1  -> 1

\* the match of to_vec_i8: two-bit code -> i8 (code 3 panics)
DecodeSquare(sq) ==
    CASE sq = 0 -> 0
      [] sq = 1 -> -1
      [] sq = 2 -> 1

\* from_vec_i8 panics: vec[i] is read for i in 0..64, so a shorter slice
\* panics on the index, and a value other than 0, -1, 1 panics in the match.
from_vec_i8_panics(v) ==
    Len(v) < Squares \/ \E i \in SquareIdx : v[i + 1] \notin {0, -1, 1}

\* GameState::from_vec_i8(vec), where it does not panic
from_vec_i8(v) ==
    [i \in SquareIdx |-> Or2(0, EncodeSquare(v[i + 1]))]

\* to_vec_i8 panics on a field holding 0b11
to_vec_i8_panics(gs) == \E i \in SquareIdx : gs[i] = 3

\* GameState::to_vec_i8(&self), where it does not panic
to_vec_i8(gs) ==
    [k \in 1..Squares |-> DecodeSquare(gs[k - 1])]

\* Input boards: every square empty but at most MaxStones of them.
RECURSIVE BoardsWith(_)
BoardsWith(n) ==
    IF n = 0
    THEN {[k \in 1..Squares |-> 0]}
    ELSE LET prev == BoardsWith(n - 1)
         IN  prev \cup {[b EXCEPT ![k] = c] : b \in prev, k \in 1..Squares, c \in {-1, 1}}

NoBoard == <<>>

InitBoard ==
    /\ vec \in BoardsWith(MaxStones)
    /\ game_state = NoBoard
    /\ out_vec = NoBoard
    /\ bpc = "input"

IdleBoard ==
    /\ vec = NoBoard
    /\ game_state = NoBoard
    /\ out_vec = NoBoard
    /\ bpc = "input"

Pack ==
    /\ bpc = "input"
    /\ IF from_vec_i8_panics(vec)
       THEN bpc' = "panicked" /\ UNCHANGED game_state
       ELSE bpc' = "packed" /\ game_state' = from_vec_i8(vec)
    /\ UNCHANGED <<vec, out_vec>>
    /\ UNCHANGED <<nodeVars, moriVars>>

Unpack ==
    /\ bpc = "packed"
    /\ IF to_vec_i8_panics(game_state)
       THEN bpc' = "panicked" /\ UNCHANGED out_vec
       ELSE bpc' = "unpacked" /\ out_vec' = to_vec_i8(game_state)
    /\ UNCHANGED <<vec, game_state>>
    /\ UNCHANGED <<nodeVars, moriVars>>

(***************************************************************************)
(* db.rs: a DBMap is one namespace of the store, kept as the function from *)
(* the keys present to their values.                                       *)
(***************************************************************************)
EmptyMap == [k \in {} |-> 0]

\* DBMap::contain
contain(m, k) == k \in DOMAIN m

\* DBMap::insert (put: the latest value of a key wins)
insert(m, k, v) == [x \in (DOMAIN m) \cup {k} |-> IF x = k THEN v ELSE m[x]]

\* DBMap::remove (delete: no error if the key is absent)
remove(m, k) == [x \in (DOMAIN m) \ {k} |-> m[x]]

\* the first key of the namespace in store-key order, as the prefix
\* iterator of pop_front yields it
FirstKey(m) == CHOOSE k \in DOMAIN m : \A x \in DOMAIN m : k <= x

\* DBMap::pop_front: the first entry is removed and returned.  (As called
\* on unspent_records, the last prefix of the database, and as to what it
\* removes on any prefix; see SpecStore for the iterator.)
pop_front(m) ==
    IF DOMAIN m = {}
    THEN [some |-> FALSE, key |-> 0, map |-> m]
    ELSE [some |-> TRUE, key |-> FirstKey(m), map |-> remove(m, FirstKey(m))]

(***************************************************************************)
(* The ledger (aleo_rust Block, Transition, Record) as the code reads it.  *)
(***************************************************************************)
MoriProgram == "mori.aleo"

\* a finalize value that is not a Plaintext, and a Plaintext that is no u128
NotPlaintext == -1
NotU128 == -2

\* the fee of an execution; a record must hold more to be kept
FeeFloor == 40000

Serials == {1, 2}

\* the serial number of a record whose Record::serial_number(..)? fails
NoSerial == 0

\* a record output of a block: sn is its serial number under Mori::pk
Record(sn, owned, microcredits) ==
    [sn |-> sn, owned |-> owned, microcredits |-> microcredits]

NoVote == Vote("", 0, 0)

\* the first output of a transition: no record of this view key ("none"), a
\* record that does not decrypt to a vote ("bad"), or a vote record
Output(kind, vote) == [kind |-> kind, vote |-> vote]

NoFinalize == [some |-> FALSE, values |-> <<>>]

Finalize(values) == [some |-> TRUE, values |-> values]

Transition(program_id, function_name, output, finalize) ==
    [program_id    |-> program_id,
     function_name |-> function_name,
     output        |-> output,
     finalize      |-> finalize]

Transaction(accepted, transitions) ==
    [accepted |-> accepted, transitions |-> transitions]

Block(serial_numbers, records, transactions) ==
    [serial_numbers |-> serial_numbers,
     records        |-> records,
     transactions   |-> transactions]

EmptyBlock == Block({}, <<>>, <<>>)

\* the block at height h
BlockAt(h) == IF h \in DOMAIN chain THEN chain[h] ELSE EmptyBlock

(***************************************************************************)
(* filter.rs: TransitionFilter                                             *)
(***************************************************************************)
TransitionFilter(program_ids, function_names) ==
    [program_ids |-> program_ids, function_names |-> function_names]

\* TransitionFilter::new().add_program("mori.aleo"), as Mori::new builds it
MoriNewFilter == TransitionFilter(<<MoriProgram>>, <<>>)

\* the same filter after add_function of the three names sync dispatches on
DispatchFilter ==
    TransitionFilter(<<MoriProgram>>, <<"vote", "move_to_next", "open_game">>)

RECURSIVE FlatTransitions(_)
FlatTransitions(txs) ==
    IF txs = <<>>
    THEN <<>>
    ELSE (IF Head(txs).accepted THEN Head(txs).transitions ELSE <<>>)
             \o FlatTransitions(Tail(txs))

\* A mutation of Allowed: one of the two lists is enough.
Allowed_either(f, t) ==
    Contains(f.program_ids, t.program_id) \/ Contains(f.function_names, t.function_name)

Allowed(f, t) ==
    Contains(f.program_ids, t.program_id) /\ Contains(f.function_names, t.function_name)

\* TransitionFilter::filter_block
filter_block(f, block) ==
    SelectSeq(FlatTransitions(block.transactions), LAMBDA t : Allowed(f, t))

(***************************************************************************)
(* lib.rs: Mori::handle_credits                                            *)
(***************************************************************************)
RECURSIVE InsertOwned(_, _)
InsertOwned(pool, records) ==
    IF records = <<>>
    THEN pool
    ELSE LET r == Head(records)
         IN  IF r.owned /\ r.sn = NoSerial
             THEN pool    \* serial_number(..)? returns from handle_credits
             ELSE IF r.owned /\ r.microcredits > FeeFloor
             THEN InsertOwned(insert(pool, r.sn, r), Tail(records))
             ELSE InsertOwned(pool, Tail(records))

\* the serial numbers of a block that are removed from the pool
RemoveSpent(pool, sns) == [x \in (DOMAIN pool) \ sns |-> pool[x]]

\* Mori::handle_credits: first every serial number of the block is removed,
\* then every owned record of the block above the fee is inserted
handle_credits(pool, block) ==
    InsertOwned(RemoveSpent(pool, block.serial_numbers), block.records)

\* handle_credits returns Err: the serial number of an owned record fails
handle_credits_fails(block) ==
    \E k \in 1..Len(block.records) :
        block.records[k].owned /\ block.records[k].sn = NoSerial

(***************************************************************************)
(* cores.rs: RestResponse, the node descriptor of the Move Resolver, and   *)
(* lib.rs: Execution, the request sent over the channel.                   *)
(***************************************************************************)
\* Option<u128>::None of RestResponse::parent_id
NoParent == -1

\* the mov of a pass
PassMov == 64

\* the boards a descriptor may carry: a 64-vector, a vector that is too
\* short, and a 64-vector holding a value outside {-1, 0, 1}
StateVec(tag) ==
    CASE tag = "board"   -> [k \in 1..Squares |-> IF k = 28 THEN 1 ELSE 0]
      [] tag = "short"   -> [k \in 1..(Squares - 1) |-> 0]
      [] tag = "invalid" -> [k \in 1..Squares |-> IF k = 1 THEN 2 ELSE 0]

RestResponse(node_id, parent_id, state, valid_moves, game_status) ==
    [node_id     |-> node_id,
     parent_id   |-> parent_id,
     node_type   |-> 0,
     state       |-> state,
     valid_moves |-> valid_moves,
     game_status |-> game_status]

\* RestResponse::is_pass
is_pass(resp) == resp.valid_moves = <<PassMov>>

NoMov == RestResponse(0, NoParent, "board", <<>>, 0)

MoveToNext(mov) == [kind |-> "MoveToNext", mov |-> mov]

OpenGame == [kind |-> "OpenGame", mov |-> NoMov]

\* the dispatcher thread is in rx.blocking_recv(), with no request in hand
Waiting == [kind |-> "none", mov |-> NoMov]

\* the capacity of the channel
ChannelCapacity == 100

(***************************************************************************)
(* lib.rs: the handlers of sync.  Each is given the transition, the maps   *)
(* it reads and the reply of the collaborator it calls, and yields whether *)
(* it returned Err and the maps as it leaves them.                         *)
(***************************************************************************)
\* the reply of POST /api/nodes to move_to_next_remote: a failure, or the
\* successor descriptors
Reply(fail, movs) == [fail |-> fail, movs |-> movs]

\* the reply of get_remote_node: a failure, or the node GameNode::from_str
\* parses, whose valid_movs and votes are empty
RemoteNode(fail, node_id, parent_id, game_status, valid_cnt) ==
    [fail |-> fail,
     node |-> GameNode(node_id, parent_id, 0, game_status, valid_cnt, <<>>, <<>>)]

VoteResult(err, nodes, q, decided, sent) ==
    [err |-> err, mori_nodes |-> nodes, tx |-> q, decided |-> decided, sent |-> sent]

\* Mori::handle_vote.  open: the receiver of the channel is alive.
handle_vote(t, nodes, q, open, reply) ==
    IF t.output.kind = "none"
    THEN VoteResult(FALSE, nodes, q, FALSE, 0)
    ELSE IF t.output.kind = "bad"
    THEN VoteResult(TRUE, nodes, q, FALSE, 0)
    ELSE LET vote == t.output.vote
         IN  IF ~contain(nodes, vote.node_id)
             THEN VoteResult(FALSE, nodes, q, FALSE, 0)
             ELSE LET r       == check_and_add_vote(nodes[vote.node_id], vote)
                      node_id == nodes[vote.node_id].node_id
                  IN  IF ~r.ret
                      THEN VoteResult(FALSE, insert(nodes, node_id, r.node), q, FALSE, 0)
                      ELSE IF reply.fail
                      THEN \* move_to_next_remote(..)? returns before the insert
                           VoteResult(TRUE, nodes, q, TRUE, 0)
                      ELSE IF reply.movs # <<>> /\ ~open
                      THEN \* blocking_send(..)? fails on a closed channel
                           VoteResult(TRUE, nodes, q, TRUE, 0)
                      ELSE VoteResult(FALSE, insert(nodes, node_id, r.node),
                                      q \o [k \in 1..Len(reply.movs) |-> MoveToNext(reply.movs[k])],
                                      TRUE, Len(reply.movs))

NodeResult(err, nodes) == [err |-> err, mori_nodes |-> nodes]

IsPlaintext(v) == v # NotPlaintext

\* Mori::handle_open
handle_open(t, nodes, remote) ==
    IF ~t.finalize.some \/ t.finalize.values = <<>>
    THEN NodeResult(FALSE, nodes)
    ELSE LET node_id == t.finalize.values[1]
         IN  IF ~IsPlaintext(node_id)
             THEN NodeResult(FALSE, nodes)
             ELSE IF node_id = NotU128 \/ remote.fail
             THEN NodeResult(TRUE, nodes)
             ELSE NodeResult(FALSE, insert(nodes, node_id, remote.node))

\* the second half of handle_move: the parent, if stored, becomes internal
MarkParent(values, nodes) ==
    IF Len(values) < 1 \/ ~IsPlaintext(values[1])
    THEN NodeResult(FALSE, nodes)
    ELSE IF values[1] = NotU128
    THEN NodeResult(TRUE, nodes)
    ELSE IF ~contain(nodes, values[1])
    THEN NodeResult(FALSE, nodes)
    ELSE NodeResult(FALSE,
                    insert(nodes, values[1], [nodes[values[1]] EXCEPT !.node_type = 1]))

\* Mori::handle_move
handle_move(t, nodes, remote) ==
    IF ~t.finalize.some
    THEN NodeResult(FALSE, nodes)
    ELSE LET values == t.finalize.values
         IN  IF Len(values) < 2 \/ ~IsPlaintext(values[2])
             THEN MarkParent(values, nodes)
             ELSE IF values[2] = NotU128 \/ remote.fail
             THEN NodeResult(TRUE, nodes)
             ELSE MarkParent(values, insert(nodes, values[2], remote.node))

(***************************************************************************)
(* History of the handlers and of the dispatcher.                          *)
(*   votes       vote transitions handled so far                           *)
(*   fired[id]   handle_vote calls for node id whose check_and_add_vote    *)
(*               returned true                                             *)
(*   enq[id]     handle_vote calls for node id that sent a MoveToNext      *)
(*   growths     times the ledger grew                                     *)
(*   spent_seen  serial numbers of the blocks handle_credits has processed *)
(*   last_pop    the serial number the last pop_front returned, and        *)
(*               whether it was in spent_seen at that moment               *)
(*   opens       OpenGame requests the front end sent                      *)
(*   exec        how the dispatcher's handler left the last request        *)
(*   order       the serial numbers in the pool, oldest insertion first    *)
(*   pops        the serial numbers pop_front has returned                 *)
(***************************************************************************)
NoPop == [sn |-> 0, spent |-> FALSE]

HistInit ==
    [votes      |-> 0,
     fired      |-> [id \in NodeIds |-> 0],
     enq        |-> [id \in NodeIds |-> 0],
     growths    |-> 0,
     spent_seen |-> {},
     last_pop   |-> NoPop,
     opens      |-> 0,
     exec       |-> "none",
     order      |-> <<>>,
     pops       |-> {}]

\* the serial numbers handle_credits inserts for the records of a block, in
\* the order of its insert calls
RECURSIVE InsertedKeys(_)
InsertedKeys(records) ==
    IF records = <<>>
    THEN <<>>
    ELSE LET r == Head(records)
         IN  IF r.owned /\ r.sn = NoSerial
             THEN <<>>
             ELSE IF r.owned /\ r.microcredits > FeeFloor
             THEN <<r.sn>> \o InsertedKeys(Tail(records))
             ELSE InsertedKeys(Tail(records))

\* keys are put behind the keys present; a key present keeps its place
RECURSIVE AppendNew(_, _)
AppendNew(order, keys) ==
    IF keys = <<>>
    THEN order
    ELSE IF Contains(order, Head(keys))
    THEN AppendNew(order, Tail(keys))
    ELSE AppendNew(Append(order, Head(keys)), Tail(keys))

\* the insertion order of the pool after handle_credits(block)
OrderAfterCredits(order, block) ==
    AppendNew(SelectSeq(order, LAMBDA k : k \notin block.serial_numbers),
              InsertedKeys(block.records))

\* the counters of the history stop at MaxVoteEvents
Count(n) == IF n < MaxVoteEvents THEN n + 1 ELSE n

\* the history after a handle_vote call on transition t with result r
VoteHist(h, t, r) ==
    IF t.output.kind # "vote"
    THEN [h EXCEPT !.votes = Count(@)]
    ELSE LET id == t.output.vote.node_id
         IN  [h EXCEPT !.votes = Count(@),
                       !.fired[id] = IF r.decided THEN Count(@) ELSE @,
                       !.enq[id]   = IF r.sent > 0 THEN Count(@) ELSE @]

\* pc, cur, latest, start, end, transitions and i are the position and the
\* locals of sync(); ret is what the last call returned; the others are the
\* history of the call: the transitions an error left behind, the errors
\* logged, the ranges asked of get_blocks and the heights of the blocks
\* handed to handle_credits and filter_block; sending and result belong to
\* a handle_vote that is in its blocking_send loop: the requests not yet
\* sent, and what the handler does once they are
SyncIdle ==
    [pc |-> "idle", cur |-> 0, latest |-> 0, start |-> 0, end |-> 0, h |-> 0,
     transitions |-> <<>>, i |-> 1, ret |-> "none", undispatched |-> 0,
     errors |-> 0, ranges |-> <<>>, observed |-> <<>>,
     sending |-> <<>>, result |-> None]

IdleMori ==
    /\ network_height = EmptyMap
    /\ unspent_records = EmptyMap
    /\ mori_nodes = EmptyMap
    /\ filter = MoriNewFilter
    /\ tx = <<>>
    /\ rx_open = TRUE
    /\ dispatcher = Waiting
    /\ chain = EmptyMap
    /\ tip = 0
    /\ sync = SyncIdle
    /\ hist = HistInit

(***************************************************************************)
(* SpecVote: handle_vote on vote transitions, over a mori_nodes map that   *)
(* holds node 1 with an empty tally and does not hold node 2.              *)
(***************************************************************************)
VoteTransition(output) == Transition(MoriProgram, "vote", output, NoFinalize)

VoteTransitions ==
    {VoteTransition(Output("vote", v)) : v \in Votes}
        \cup {VoteTransition(Output("bad", NoVote)), VoteTransition(Output("none", NoVote))}

Successor == RestResponse(3, 1, "board", <<5>>, 0)

PassSuccessor == RestResponse(4, 1, "board", <<PassMov>>, 0)

MoveReplies ==
    {Reply(TRUE, <<>>), Reply(FALSE, <<>>), Reply(FALSE, <<Successor>>),
     Reply(FALSE, <<Successor, PassSuccessor>>)}

StoredNodes ==
    {GameNode(1, 0, t, g, n, <<5, 6>>, <<>>) :
        t \in {0, 1}, g \in {0, 1}, n \in 0..MaxVoters}

InitVote ==
    /\ network_height = EmptyMap
    /\ unspent_records = EmptyMap
    /\ mori_nodes \in {insert(EmptyMap, 1, n) : n \in StoredNodes}
    /\ filter = MoriNewFilter
    /\ tx = <<>>
    /\ rx_open = TRUE
    /\ dispatcher = Waiting
    /\ chain = EmptyMap
    /\ tip = 0
    /\ sync = SyncIdle
    /\ hist = HistInit

\* handle_vote(t), called with the reply the Move Resolver would give.  The
\* blocking_send calls return once the channel has room for the requests.
HandleVote(t, reply) ==
    /\ hist.votes < MaxVoteEvents
    /\ LET r == handle_vote(t, mori_nodes, tx, rx_open, reply)
       IN  /\ Len(r.tx) <= ChannelCapacity
           /\ mori_nodes' = r.mori_nodes
           /\ tx' = r.tx
           /\ hist' = VoteHist(hist, t, r)
    /\ UNCHANGED <<network_height, unspent_records, filter, rx_open, dispatcher, chainVars, sync>>
    /\ UNCHANGED <<nodeVars, boardVars>>

(***************************************************************************)
(* The ledger grows: one block with content, or a batch of blocks of which *)
(* the first has content.  Serial numbers are used as a ledger uses them:  *)
(* a record is created once, and spent at most once, in the block that     *)
(* creates it or in a later one.                                           *)
(***************************************************************************)
BATCH_SIZE == 45

GrowSteps == {1, BATCH_SIZE}

SerialsCreated(block) ==
    {block.records[k].sn :
        k \in {j \in 1..Len(block.records) :
                  block.records[j].owned /\ block.records[j].sn # NoSerial}}

ChainCreated == UNION {SerialsCreated(chain[h]) : h \in DOMAIN chain}

ChainSpent == UNION {chain[h].serial_numbers : h \in DOMAIN chain}

WellFormed(block) ==
    /\ SerialsCreated(block) \cap ChainCreated = {}
    /\ block.serial_numbers \subseteq ((ChainCreated \cup SerialsCreated(block)) \ ChainSpent)

LedgerGrow(block, k) ==
    /\ hist.growths < MaxGrowths
    /\ WellFormed(block)
    /\ chain' = IF block = EmptyBlock THEN chain ELSE insert(chain, tip, block)
    /\ tip' = tip + k
    /\ hist' = [hist EXCEPT !.growths = @ + 1]
    /\ UNCHANGED <<storeVars, filter, chanVars, sync>>
    /\ UNCHANGED <<nodeVars, boardVars>>

(***************************************************************************)
(* lib.rs: Mori::set_cur_height and Mori::sync                             *)
(***************************************************************************)
NetworkKey == "rpc-pk"

\* self.network_height.get(&self.network_key)?.unwrap_or(0)
Cur == IF contain(network_height, NetworkKey) THEN network_height[NetworkKey] ELSE 0

\* Mori::set_cur_height(height), called while no sync() is running
SetCurHeight(height) ==
    /\ sync.pc = "idle"
    /\ network_height' = IF height > Cur
                         THEN insert(network_height, NetworkKey, height)
                         ELSE network_height
    /\ UNCHANGED <<unspent_records, mori_nodes, filter, chanVars, chainVars, sync, hist>>
    /\ UNCHANGED <<nodeVars, boardVars>>

Min(a, b) == IF a <= b THEN a ELSE b

\* sync(): cur and latest are read
SyncBegin ==
    /\ sync.pc = "idle"
    /\ sync' = [SyncIdle EXCEPT !.pc = "batch", !.cur = Cur, !.latest = tip, !.start = Cur]
    /\ UNCHANGED <<storeVars, filter, chanVars, chainVars, hist>>
    /\ UNCHANGED <<nodeVars, boardVars>>

\* sync(): latest_height()? fails and sync returns the error
SyncLatestFails ==
    /\ sync.pc = "idle"
    /\ sync' = [SyncIdle EXCEPT !.cur = Cur, !.ret = "err"]
    /\ UNCHANGED <<storeVars, filter, chanVars, chainVars, hist>>
    /\ UNCHANGED <<nodeVars, boardVars>>

\* A mutation of SyncBatch: the end of the range is not cut at latest.
SyncBatch_uncut ==
    /\ sync.pc = "batch"
    /\ sync.start < sync.latest
    /\ sync' = [sync EXCEPT !.pc = "blocks",
                            !.end = sync.start + BATCH_SIZE,
                            !.h = sync.start,
                            !.transitions = <<>>,
                            !.i = 1,
                            !.ranges = Append(@, <<sync.start, sync.start + BATCH_SIZE>>)]
    /\ UNCHANGED <<storeVars, filter, chanVars, chainVars, hist>>
    /\ UNCHANGED <<nodeVars, boardVars>>

\* the for loop of sync yields the next start: get_blocks(start, end)
SyncBatch ==
    /\ sync.pc = "batch"
    /\ sync.start < sync.latest
    /\ sync' = [sync EXCEPT !.pc = "blocks",
                            !.end = Min(sync.start + BATCH_SIZE, sync.latest),
                            !.h = sync.start,
                            !.transitions = <<>>,
                            !.i = 1,
                            !.ranges = Append(@, <<sync.start,
                                                   Min(sync.start + BATCH_SIZE, sync.latest)>>)]
    /\ UNCHANGED <<storeVars, filter, chanVars, chainVars, hist>>
    /\ UNCHANGED <<nodeVars, boardVars>>

\* get_blocks(start, end)? fails and sync returns the error
SyncFetchFails ==
    /\ sync.pc = "batch"
    /\ sync.start < sync.latest
    /\ sync' = [SyncIdle EXCEPT !.cur = sync.cur, !.latest = sync.latest, !.ret = "err",
                                !.errors = sync.errors,
                                !.ranges = Append(sync.ranges,
                                                  <<sync.start,
                                                    Min(sync.start + BATCH_SIZE, sync.latest)>>),
                                !.observed = sync.observed]
    /\ UNCHANGED <<storeVars, filter, chanVars, chainVars, hist>>
    /\ UNCHANGED <<nodeVars, boardVars>>

\* the flat_map closure on the next block of the batch: handle_credits,
\* then filter_block; after the last block the transitions are collected
SyncBlock ==
    /\ sync.pc = "blocks"
    /\ sync.h < sync.end
    /\ LET b == BlockAt(sync.h)
       IN  /\ unspent_records' = handle_credits(unspent_records, b)
           /\ hist' = [hist EXCEPT !.spent_seen = @ \cup b.serial_numbers,
                                   !.order = OrderAfterCredits(@, b)]
           /\ sync' = [sync EXCEPT !.h = @ + 1,
                                   !.transitions = @ \o filter_block(filter, b),
                                   !.errors = IF handle_credits_fails(b) THEN @ + 1 ELSE @,
                                   !.observed = Append(@, sync.h),
                                   !.pc = IF sync.h + 1 = sync.end THEN "handle" ELSE "blocks"]
    /\ UNCHANGED <<network_height, mori_nodes, filter, chanVars, chainVars>>
    /\ UNCHANGED <<nodeVars, boardVars>>

RemoteCounts == {4}

\* what GET .../mori/node/{id} may give get_remote_node(id)
RemoteReplies(id) ==
    {RemoteNode(TRUE, id, 0, 0, 0)}
        \cup {RemoteNode(FALSE, id, 0, 0, n) : n \in RemoteCounts}

\* the id get_remote_node is called with by the handler of t
RemoteId(t) ==
    IF t.function_name = "open_game"
    THEN (IF Len(t.finalize.values) >= 1 THEN t.finalize.values[1] ELSE 0)
    ELSE (IF Len(t.finalize.values) >= 2 THEN t.finalize.values[2] ELSE 0)

\* the match of ts_handler on the function name
Dispatch(t, nodes, q, open, reply, remote) ==
    CASE t.function_name = "vote" -> handle_vote(t, nodes, q, open, reply)
      [] t.function_name = "move_to_next" ->
            LET r == handle_move(t, nodes, remote)
            IN  VoteResult(r.err, r.mori_nodes, q, FALSE, 0)
      [] t.function_name = "open_game" ->
            LET r == handle_open(t, nodes, remote)
            IN  VoteResult(r.err, r.mori_nodes, q, FALSE, 0)
      [] OTHER -> VoteResult(FALSE, nodes, q, FALSE, 0)

\* ts_handler after the handler of transitions[i] returned: on Err the `?`
\* leaves the closure, the error is logged and the for loop of sync goes to
\* the next batch; undispatched counts the transitions left behind
AfterHandler(s, err) ==
    IF err
    THEN [s EXCEPT !.pc = "batch",
                   !.start = @ + BATCH_SIZE,
                   !.transitions = <<>>,
                   !.i = 1,
                   !.undispatched = Len(s.transitions) - s.i,
                   !.errors = @ + 1]
    ELSE [s EXCEPT !.i = @ + 1]

\* ts_handler: the next transition of the batch is handed to its handler
SyncHandle ==
    /\ sync.pc = "handle"
    /\ sync.i <= Len(sync.transitions)
    /\ LET t == sync.transitions[sync.i]
       IN  \E reply \in MoveReplies, remote \in RemoteReplies(RemoteId(t)) :
               LET r == Dispatch(t, mori_nodes, tx, rx_open, reply, remote)
               IN  /\ Len(r.tx) <= ChannelCapacity
                   /\ mori_nodes' = r.mori_nodes
                   /\ tx' = r.tx
                   /\ hist' = IF t.function_name = "vote" THEN VoteHist(hist, t, r) ELSE hist
                   /\ sync' = AfterHandler(sync, r.err)
    /\ UNCHANGED <<network_height, unspent_records, filter, rx_open, dispatcher, chainVars>>
    /\ UNCHANGED <<nodeVars, boardVars>>

\* ts_handler returns Ok: every transition of the batch was handled
SyncBatchDone ==
    /\ sync.pc = "handle"
    /\ sync.i > Len(sync.transitions)
    /\ sync' = [sync EXCEPT !.pc = "batch", !.start = @ + BATCH_SIZE,
                            !.transitions = <<>>, !.i = 1, !.undispatched = 0]
    /\ UNCHANGED <<storeVars, filter, chanVars, chainVars, hist>>
    /\ UNCHANGED <<nodeVars, boardVars>>

\* A mutation of SyncFinish: the checkpoint is written only after a call
\* that logged no error.
SyncFinish_only_without_errors ==
    /\ sync.pc = "batch"
    /\ sync.start >= sync.latest
    /\ network_height' = IF sync.errors = 0
                         THEN insert(network_height, NetworkKey, sync.latest)
                         ELSE network_height
    /\ sync' = [SyncIdle EXCEPT !.cur = sync.cur, !.latest = sync.latest, !.ret = "ok",
                                !.errors = sync.errors,
                                !.ranges = sync.ranges,
                                !.observed = sync.observed]
    /\ UNCHANGED <<unspent_records, mori_nodes, filter, chanVars, chainVars, hist>>
    /\ UNCHANGED <<nodeVars, boardVars>>

\* the for loop of sync is over: the checkpoint is written
SyncFinish ==
    /\ sync.pc = "batch"
    /\ sync.start >= sync.latest
    /\ network_height' = insert(network_height, NetworkKey, sync.latest)
    /\ sync' = [SyncIdle EXCEPT !.cur = sync.cur, !.latest = sync.latest, !.ret = "ok",
                                !.errors = sync.errors,
                                !.ranges = sync.ranges,
                                !.observed = sync.observed]
    /\ UNCHANGED <<unspent_records, mori_nodes, filter, chanVars, chainVars, hist>>
    /\ UNCHANGED <<nodeVars, boardVars>>

(***************************************************************************)
(* main.rs: open_game of the front end; lib.rs: Mori::execute_program      *)
(***************************************************************************)
\* mori.tx.send(Execution::OpenGame).await, once the channel has room
OpenGameRequest ==
    /\ hist.opens < MaxOpens
    /\ rx_open
    /\ Len(tx) < ChannelCapacity
    /\ tx' = Append(tx, OpenGame)
    /\ hist' = [hist EXCEPT !.opens = @ + 1]
    /\ UNCHANGED <<storeVars, filter, rx_open, dispatcher, chainVars, sync>>
    /\ UNCHANGED <<nodeVars, boardVars>>

\* the handler closure up to the fee record: "panic", "err" or "ok"
BuildInputs(exec, remote_ok) ==
    IF exec.kind = "MoveToNext"
    THEN IF from_vec_i8_panics(StateVec(exec.mov.state)) THEN "panic"
         ELSE IF exec.mov.parent_id = NoParent THEN "err"
         ELSE "ok"
    ELSE IF remote_ok THEN "ok" ELSE "err"

\* how the handler closure leaves a request: it panicked, it returned Err
\* while building the inputs or for want of a fee record, or it reached
\* pm.execute_program, which submitted the transaction or failed
Outcome(built, some, submit_ok) ==
    CASE built = "panic" -> "panic"
      [] built = "err"   -> "input_err"
      [] built = "ok" /\ ~some -> "no_record"
      [] built = "ok" /\ some /\ submit_ok  -> "submitted"
      [] built = "ok" /\ some /\ ~submit_ok -> "submit_err"

\* one turn of the while loop of execute_program: a request is received and
\* handled.  remote_ok: open_game_remote succeeded; submit_ok:
\* pm.execute_program succeeded.  A panic of the handler unwinds the
\* dispatcher thread: the receiver is dropped with what it still held.
Execute(remote_ok, submit_ok) ==
    /\ rx_open
    /\ dispatcher = Waiting
    /\ tx # <<>>
    /\ LET built  == BuildInputs(Head(tx), remote_ok)
           popped == pop_front(unspent_records)
       IN  /\ rx_open' = (built # "panic")
           /\ tx' = IF built = "panic" THEN <<>> ELSE Tail(tx)
           /\ unspent_records' = IF built = "ok" /\ popped.some
                                  THEN popped.map ELSE unspent_records
           /\ hist' = [hist EXCEPT
                          !.exec = Outcome(built, popped.some, submit_ok),
                          !.last_pop = IF built = "ok" /\ popped.some
                                       THEN [sn    |-> popped.key,
                                             spent |-> popped.key \in hist.spent_seen]
                                       ELSE @,
                          !.order = IF built = "ok" /\ popped.some
                                    THEN SelectSeq(@, LAMBDA k : k # popped.key)
                                    ELSE @,
                          !.pops = IF built = "ok" /\ popped.some
                                   THEN @ \cup {popped.key}
                                   ELSE @]
    /\ UNCHANGED <<network_height, mori_nodes, filter, dispatcher, chainVars, sync>>
    /\ UNCHANGED <<nodeVars, boardVars>>

(***************************************************************************)
(* SpecDispatch: the dispatcher over the requests of the front end and of  *)
(* handle_vote.  The Move Resolver answers a decided vote with one         *)
(* successor descriptor, which it fills as it likes; the pool holds the    *)
(* fee records earlier syncs left in it.                                   *)
(***************************************************************************)
Descriptors ==
    {RestResponse(3, p, st, <<5>>, 0) :
        p \in {1, NoParent}, st \in {"board", "short", "invalid"}}

DescriptorReplies == {Reply(TRUE, <<>>)} \cup {Reply(FALSE, <<d>>) : d \in Descriptors}

DecidingVote == VoteTransition(Output("vote", Vote("aleo1a", 1, 5)))

Pools ==
    {EmptyMap,
     insert(EmptyMap, 1, Record(1, TRUE, FeeFloor + 1)),
     insert(insert(EmptyMap, 1, Record(1, TRUE, FeeFloor + 1)),
            2, Record(2, TRUE, FeeFloor + 1))}

InitDispatch ==
    /\ network_height = EmptyMap
    /\ unspent_records \in Pools
    /\ mori_nodes = insert(EmptyMap, 1, GameNode(1, 0, 0, 0, 2, <<5, 6>>, <<>>))
    /\ filter = MoriNewFilter
    /\ tx = <<>>
    /\ rx_open = TRUE
    /\ dispatcher = Waiting
    /\ chain = EmptyMap
    /\ tip = 0
    /\ sync = SyncIdle
    /\ hist = [HistInit EXCEPT !.order = AppendNew(<<>>, IF 2 \in DOMAIN unspent_records
                                                         THEN <<1, 2>>
                                                         ELSE IF 1 \in DOMAIN unspent_records
                                                         THEN <<1>> ELSE <<>>)]

(***************************************************************************)
(* The blocks the ledger may hold.                                         *)
(***************************************************************************)
OpenTransition(values) ==
    Transition(MoriProgram, "open_game", Output("none", NoVote), Finalize(values))

MoveTransition(values) ==
    Transition(MoriProgram, "move_to_next", Output("none", NoVote), Finalize(values))

OtherTransition(program_id, function_name) ==
    Transition(program_id, function_name, Output("none", NoVote), NoFinalize)

TransitionLists ==
    {<<VoteTransition(Output("bad", NoVote)), OpenTransition(<<1>>)>>,
     <<VoteTransition(Output("vote", Vote("aleo1a", 1, 5))), MoveTransition(<<1, 2>>)>>,
     <<OtherTransition("credits.aleo", "transfer_private"), OpenTransition(<<1>>),
       OtherTransition(MoriProgram, "withdraw")>>}

TransitionBlocks ==
    {Block({}, <<>>, <<Transaction(TRUE, ts)>>) : ts \in TransitionLists}
        \cup {Block({}, <<>>, <<Transaction(FALSE, <<OpenTransition(<<2>>)>>),
                                Transaction(TRUE, <<OpenTransition(<<NotU128>>)>>)>>),
              Block({}, <<Record(NoSerial, TRUE, FeeFloor + 1), Record(1, TRUE, FeeFloor + 1)>>,
                    <<Transaction(TRUE, <<OpenTransition(<<2>>)>>)>>)}

CreditRecords ==
    {<<>>} \cup {<<Record(sn, TRUE, c)>> : sn \in Serials, c \in {FeeFloor, FeeFloor + 1}}
           \cup {<<Record(0, FALSE, FeeFloor + 1)>>}

CreditBlocks ==
    {Block(sns, rs, <<>>) : sns \in {{}} \cup {{sn} : sn \in Serials}, rs \in CreditRecords}

InitMori ==
    /\ network_height = EmptyMap
    /\ unspent_records = EmptyMap
    /\ mori_nodes = EmptyMap
    /\ filter \in {MoriNewFilter, DispatchFilter}
    /\ tx = <<>>
    /\ rx_open = TRUE
    /\ dispatcher = Waiting
    /\ chain = EmptyMap
    /\ tip = 0
    /\ sync = SyncIdle
    /\ hist = HistInit

(***************************************************************************)
(* SpecQueue: the sync thread, the dispatcher thread and the front end on  *)
(* the bounded channel.  The blocking_send calls of handle_vote are steps  *)
(* of their own, and so are the blocking_recv of the dispatcher and the    *)
(* call of its handler.  The ledger holds one block with two votes for     *)
(* node 1, which is stored with legal moves and decides on every vote; the *)
(* filter lets the votes through.  The queue starts empty, or holding what *)
(* an earlier decided vote and posts of the front end left in it.          *)
(***************************************************************************)
VotesBlock ==
    Block({}, <<>>,
          <<Transaction(TRUE, <<VoteTransition(Output("vote", Vote("aleo1a", 1, 5))),
                                VoteTransition(Output("vote", Vote("aleo1b", 1, 6)))>>)>>)

QueuedDescriptors == {RestResponse(3, 1, st, <<5>>, 0) : st \in {"board", "short"}}

\* the queue: a MoveToNext followed by n OpenGame requests
Queued(d, n) == <<MoveToNext(d)>> \o [k \in 1..n |-> OpenGame]

QueueFills ==
    {<<>>} \cup {Queued(d, n) : d \in QueuedDescriptors,
                                n \in {ChannelCapacity - 2, ChannelCapacity - 1}}

QueueReplies == MoveReplies \cup {Reply(FALSE, <<d>>) : d \in QueuedDescriptors}

InitQueue ==
    /\ network_height = EmptyMap
    /\ unspent_records \in {EmptyMap, insert(EmptyMap, 1, Record(1, TRUE, FeeFloor + 1))}
    /\ mori_nodes = insert(EmptyMap, 1, GameNode(1, 0, 0, 0, 2, <<5, 6>>, <<>>))
    /\ filter = DispatchFilter
    /\ tx \in QueueFills
    /\ rx_open = TRUE
    /\ dispatcher = Waiting
    /\ chain = insert(EmptyMap, 0, VotesBlock)
    /\ tip = 1
    /\ sync = SyncIdle
    /\ hist = [HistInit EXCEPT !.order = IF unspent_records = EmptyMap THEN <<>> ELSE <<1>>]

\* ts_handler: the next transition of the batch is handed to its handler,
\* which runs up to its first blocking_send, or to its end if it sends
\* nothing
SyncDecide ==
    /\ sync.pc = "handle"
    /\ sync.i <= Len(sync.transitions)
    /\ LET t == sync.transitions[sync.i]
       IN  \E reply \in QueueReplies, remote \in RemoteReplies(RemoteId(t)) :
               LET r == Dispatch(t, mori_nodes, <<>>, TRUE, reply, remote)
               IN  IF r.sent = 0
                   THEN /\ mori_nodes' = r.mori_nodes
                        /\ hist' = IF t.function_name = "vote" THEN VoteHist(hist, t, r) ELSE hist
                        /\ sync' = AfterHandler(sync, r.err)
                   ELSE /\ sync' = [sync EXCEPT !.pc = "send", !.sending = r.tx, !.result = r]
                        /\ UNCHANGED <<mori_nodes, hist>>
    /\ UNCHANGED <<network_height, unspent_records, filter, chanVars, chainVars>>
    /\ UNCHANGED <<nodeVars, boardVars>>

\* the sync thread is in a blocking_send that waits for room in the queue
Blocked == sync.pc = "send" /\ sync.sending # <<>> /\ rx_open /\ Len(tx) >= ChannelCapacity

\* self.tx.blocking_send(Execution::MoveToNext(mov))? returns Ok: the queue
\* had room.  After the last one the node is inserted and handle_vote
\* returns.
SyncSend ==
    /\ sync.pc = "send"
    /\ sync.sending # <<>>
    /\ rx_open
    /\ Len(tx) < ChannelCapacity
    /\ tx' = Append(tx, Head(sync.sending))
    /\ IF Tail(sync.sending) = <<>>
       THEN /\ mori_nodes' = sync.result.mori_nodes
            /\ hist' = VoteHist(hist, sync.transitions[sync.i], sync.result)
            /\ sync' = AfterHandler([sync EXCEPT !.pc = "handle", !.sending = <<>>,
                                                 !.result = None], FALSE)
       ELSE /\ sync' = [sync EXCEPT !.sending = Tail(@)]
            /\ UNCHANGED <<mori_nodes, hist>>
    /\ UNCHANGED <<network_height, unspent_records, filter, rx_open, dispatcher, chainVars>>
    /\ UNCHANGED <<nodeVars, boardVars>>

\* blocking_send(..)? returns Err: the receiver is gone.  handle_vote
\* returns the error before its insert.
SyncSendFails ==
    /\ sync.pc = "send"
    /\ sync.sending # <<>>
    /\ ~rx_open
    /\ hist' = VoteHist(hist, sync.transitions[sync.i],
                        [sync.result EXCEPT !.err = TRUE,
                                            !.sent = @ - Len(sync.sending)])
    /\ sync' = AfterHandler([sync EXCEPT !.pc = "handle", !.sending = <<>>,
                                         !.result = None], TRUE)
    /\ UNCHANGED <<storeVars, filter, chanVars, chainVars>>
    /\ UNCHANGED <<nodeVars, boardVars>>

\* rx.blocking_recv() returns the request at the head of the queue
DispatcherRecv ==
    /\ rx_open
    /\ dispatcher = Waiting
    /\ tx # <<>>
    /\ dispatcher' = Head(tx)
    /\ tx' = Tail(tx)
    /\ UNCHANGED <<storeVars, filter, rx_open, chainVars, sync, hist>>
    /\ UNCHANGED <<nodeVars, boardVars>>

\* handler(exec) on the request received, as in Execute.  A panic unwinds
\* the dispatcher thread: the receiver is dropped with what the queue holds.
DispatcherHandle(remote_ok, submit_ok) ==
    /\ dispatcher # Waiting
    /\ LET built  == BuildInputs(dispatcher, remote_ok)
           popped == pop_front(unspent_records)
       IN  /\ rx_open' = (built # "panic")
           /\ tx' = IF built = "panic" THEN <<>> ELSE tx
           /\ unspent_records' = IF built = "ok" /\ popped.some
                                  THEN popped.map ELSE unspent_records
           /\ hist' = [hist EXCEPT
                          !.exec = Outcome(built, popped.some, submit_ok),
                          !.last_pop = IF built = "ok" /\ popped.some
                                       THEN [sn    |-> popped.key,
                                             spent |-> popped.key \in hist.spent_seen]
                                       ELSE @,
                          !.order = IF built = "ok" /\ popped.some
                                    THEN SelectSeq(@, LAMBDA k : k # popped.key)
                                    ELSE @,
                          !.pops = IF built = "ok" /\ popped.some
                                   THEN @ \cup {popped.key}
                                   ELSE @]
    /\ dispatcher' = Waiting
    /\ UNCHANGED <<network_height, mori_nodes, filter, chainVars, sync>>
    /\ UNCHANGED <<nodeVars, boardVars>>

(***************************************************************************)
(* Claims about the channel (SpecQueue)                                    *)
(***************************************************************************)
\* C26: the queue never holds more than ChannelCapacity requests; while
\* the sync thread is in a blocking_send on a full queue it takes no step
\* and the stored checkpoint does not change; and the send stays blocked
\* until the dispatcher dequeues a request.
C26_FullQueueBlocksSync ==
    [][/\ Len(tx) <= ChannelCapacity /\ Len(tx') <= ChannelCapacity
       /\ Blocked => (sync' = sync /\ Cur' = Cur)
       /\ (Blocked /\ ~Blocked')
              => (dispatcher = Waiting /\ dispatcher' = Head(tx) /\ tx' = Tail(tx))]_vars

(***************************************************************************)
(* SpecRequest: the calls of SpecNode, and the request move_to_next_remote  *)
(* builds from the node right after a call that returned true; hist is the *)
(* request and the node it was built from.                                 *)
(***************************************************************************)
NoRequest == [built |-> FALSE, req |-> [parent_id |-> 0, votes |-> {}], of |-> None]

InitRequest ==
    /\ network_height = EmptyMap
    /\ unspent_records = EmptyMap
    /\ mori_nodes = EmptyMap
    /\ filter = MoriNewFilter
    /\ tx = <<>>
    /\ rx_open = TRUE
    /\ dispatcher = Waiting
    /\ chain = EmptyMap
    /\ tip = 0
    /\ sync = None
    /\ hist = NoRequest

\* move_to_next_remote(node.clone()) after check_and_add_vote returned true
BuildRequest ==
    /\ last.ret
    /\ hist' = [built |-> TRUE, req |-> from_node(node), of |-> node]
    /\ UNCHANGED <<storeVars, filter, chanVars, chainVars, sync>>
    /\ UNCHANGED <<nodeVars, boardVars>>

\* C25: the request built from a decided node has exactly one group per
\* distinct move among the node's accepted votes, the sender of every
\* accepted vote is in the group of its move, and no voter identity is
\* twice in one group, several votes by one sender included.
C25_GroupsHoldDistinctVoters ==
    hist.built =>
        LET votes  == hist.of.votes
            groups == hist.req.votes
        IN  /\ {g.mov : g \in groups} = {votes[k].mov : k \in 1..Len(votes)}
            /\ \A g \in groups, h \in groups : g.mov = h.mov => g = h
            /\ \A k \in 1..Len(votes) :
                   \E g \in groups : g.mov = votes[k].mov /\ Contains(g.addresses, votes[k].sender)
            /\ \A g \in groups :
                   \A i \in 1..Len(g.addresses), j \in 1..Len(g.addresses) :
                       g.addresses[i] = g.addresses[j] => i = j

(***************************************************************************)
(* SpecNodes: the three handlers of sync on the mori_nodes map, in any     *)
(* order, open_game and move_to_next events naming stored ids included.    *)
(* The map starts as in SpecVote: node 1 is stored with an empty tally and *)
(* the legal moves 5 and 6.                                                *)
(***************************************************************************)
OpenEvents == {OpenTransition(<<id>>) : id \in NodeIds}

MoveEvents == {MoveTransition(<<p, c>>) : p \in NodeIds, c \in NodeIds}

\* handle_open(t), called with the reply get_remote_node would give
HandleOpen(t, remote) ==
    /\ mori_nodes' = handle_open(t, mori_nodes, remote).mori_nodes
    /\ UNCHANGED <<network_height, unspent_records, filter, chanVars, chainVars, sync, hist>>
    /\ UNCHANGED <<nodeVars, boardVars>>

\* handle_move(t), called with the reply get_remote_node would give
HandleMove(t, remote) ==
    /\ mori_nodes' = handle_move(t, mori_nodes, remote).mori_nodes
    /\ UNCHANGED <<network_height, unspent_records, filter, chanVars, chainVars, sync, hist>>
    /\ UNCHANGED <<nodeVars, boardVars>>

\* s is a prefix of t
IsPrefix(s, t) == Len(s) <= Len(t) /\ \A k \in 1..Len(s) : s[k] = t[k]

\* C23: a node id in mori_nodes stays in it, and the votes of a stored node
\* are a prefix of its votes after every step of the handlers, a repeated
\* open_game or move_to_next event naming a stored id included.
C23_NodesKeepTheirVotes ==
    [][\A id \in DOMAIN mori_nodes :
           /\ contain(mori_nodes', id)
           /\ IsPrefix(mori_nodes[id].votes, mori_nodes'[id].votes)]_vars

(***************************************************************************)
(* SpecRace: handle_vote in its three steps, the get of the node, the      *)
(* check_and_add_vote on the copy with the sends, and the insert, as run   *)
(* by the threads that call sync().  sync[th] is the handling thread th is *)
(* in; hist holds the votes whose handling began and those that were       *)
(* appended and written back.                                              *)
(***************************************************************************)
\* A mutation of SyncThreads: a second thread runs sync().
SyncThreads_two == {"sync", "sync2"}

\* the threads that run sync(), and with it ts_handler and handle_vote:
\* Mori::initial spawns one
SyncThreads == {"sync"}

NoNode == GameNode(0, 0, 0, 0, 0, <<>>, <<>>)

\* a thread that is not inside handle_vote
VoteIdle == [pc |-> "idle", vote |-> NoVote, node |-> NoNode, pushed |-> FALSE]

StepResult(nodes, local, sent) == [mori_nodes |-> nodes, local |-> local, sent |-> sent]

\* the next step of handle_vote(vote) by a thread whose handling is l, over
\* the map nodes: the get (from "idle"), check_and_add_vote on the copy and
\* the sends (from "fetched"), the insert (from "mutated")
vote_step(nodes, l, vote, reply) ==
    CASE l.pc = "idle" ->
            IF ~contain(nodes, vote.node_id)
            THEN StepResult(nodes, VoteIdle, <<>>)
            ELSE StepResult(nodes,
                            [pc |-> "fetched", vote |-> vote,
                             node |-> nodes[vote.node_id], pushed |-> FALSE],
                            <<>>)
      [] l.pc = "fetched" ->
            LET r == check_and_add_vote(l.node, l.vote)
            IN  IF r.ret /\ reply.fail
                THEN StepResult(nodes, VoteIdle, <<>>)
                ELSE StepResult(nodes,
                                [l EXCEPT !.pc = "mutated", !.node = r.node,
                                          !.pushed = (r.node.votes # l.node.votes)],
                                IF r.ret THEN reply.movs ELSE <<>>)
      [] l.pc = "mutated" ->
            StepResult(insert(nodes, l.node.node_id, l.node), VoteIdle, <<>>)

RaceHistInit == [votes |-> 0, handled |-> {}, accepted |-> {}]

InitRace ==
    /\ network_height = EmptyMap
    /\ unspent_records = EmptyMap
    /\ mori_nodes \in {insert(EmptyMap, 1, n) : n \in StoredNodes}
    /\ filter = MoriNewFilter
    /\ tx = <<>>
    /\ rx_open = TRUE
    /\ dispatcher = Waiting
    /\ chain = EmptyMap
    /\ tip = 0
    /\ sync = [th \in SyncThreads |-> VoteIdle]
    /\ hist = RaceHistInit

\* handle_vote begins on the next vote of the ledger: mori_nodes.get
VoteFetch(th, vote) ==
    /\ sync[th].pc = "idle"
    /\ hist.votes < MaxVoteEvents
    /\ vote \notin hist.handled
    /\ sync' = [sync EXCEPT ![th] = vote_step(mori_nodes, @, vote, Reply(FALSE, <<>>)).local]
    /\ hist' = [hist EXCEPT !.votes = @ + 1, !.handled = @ \cup {vote}]
    /\ UNCHANGED <<storeVars, filter, chanVars, chainVars>>
    /\ UNCHANGED <<nodeVars, boardVars>>

\* check_and_add_vote on the copy, move_to_next_remote and the sends
VoteMutate(th, reply) ==
    /\ sync[th].pc = "fetched"
    /\ LET r == vote_step(mori_nodes, sync[th], sync[th].vote, reply)
       IN  /\ Len(tx) + Len(r.sent) <= ChannelCapacity
           /\ sync' = [sync EXCEPT ![th] = r.local]
           /\ tx' = tx \o [k \in 1..Len(r.sent) |-> MoveToNext(r.sent[k])]
    /\ UNCHANGED <<storeVars, filter, rx_open, dispatcher, chainVars, hist>>
    /\ UNCHANGED <<nodeVars, boardVars>>

\* mori_nodes.insert(&node_id, &node), and handle_vote returns
VoteWriteBack(th) ==
    /\ sync[th].pc = "mutated"
    /\ LET r == vote_step(mori_nodes, sync[th], sync[th].vote, Reply(FALSE, <<>>))
       IN  /\ mori_nodes' = r.mori_nodes
           /\ sync' = [sync EXCEPT ![th] = r.local]
    /\ hist' = [hist EXCEPT !.accepted = IF sync[th].pushed
                                         THEN @ \cup {sync[th].vote} ELSE @]
    /\ UNCHANGED <<network_height, unspent_records, filter, chanVars, chainVars>>
    /\ UNCHANGED <<nodeVars, boardVars>>

(***************************************************************************)
(* Claims about concurrent vote handlings (SpecRace)                       *)
(***************************************************************************)
\* the orders in which the three steps of two handlings can follow one
\* another: s[i] is the handling that takes the i-th step
Interleavings ==
    {s \in [1..6 -> {1, 2}] : Cardinality({i \in 1..6 : s[i] = 1}) = 3}

\* a thread runs the handlings given to it one after the other
Admitted(s, thread_of) ==
    thread_of[1] = thread_of[2] => s \in {<<1, 1, 1, 2, 2, 2>>, <<2, 2, 2, 1, 1, 1>>}

\* the map after the steps s[i], s[i+1], ... of the handlings of votes[1]
\* and votes[2], and the votes that were appended and written back; the
\* Move Resolver answers
RECURSIVE RunSchedule(_, _, _, _, _, _)
RunSchedule(nodes, locals, accepted, votes, s, i) ==
    IF i > Len(s)
    THEN [mori_nodes |-> nodes, accepted |-> accepted]
    ELSE LET l == locals[s[i]]
             r == vote_step(nodes, l, votes[s[i]], Reply(FALSE, <<>>))
         IN  RunSchedule(r.mori_nodes,
                         [locals EXCEPT ![s[i]] = r.local],
                         IF l.pc = "mutated" /\ l.pushed
                         THEN accepted \cup {l.vote} ELSE accepted,
                         votes, s, i + 1)

\* a vote that was appended and written back is no longer in the map
LostVote(run) ==
    \E v \in run.accepted : ~Contains(run.mori_nodes[v.node_id].votes, v)

Namespaces == <<"mori_nodes", "network", "unspent_records">>

NsIdx == 1..Len(Namespaces)

StoreKeys == {1, 2}

StoreValues == {1, 2}

\* the DBMap opened on the i-th prefix
NsMap(i) ==
    CASE i = 1 -> mori_nodes
      [] i = 2 -> network_height
      [] i = 3 -> unspent_records

\* the entries of one namespace in key order, tagged with the namespace
RECURSIVE SortedPairs(_, _)
SortedPairs(i, m) ==
    IF DOMAIN m = {}
    THEN <<>>
    ELSE <<[ns |-> Namespaces[i], key |-> FirstKey(m), value |-> m[FirstKey(m)]]>>
             \o SortedPairs(i, remove(m, FirstKey(m)))

\* self.inner.prefix_iterator(self.prefix.clone()) on the i-th prefix
RECURSIVE prefix_iterator(_)
prefix_iterator(i) ==
    IF i > Len(Namespaces)
    THEN <<>>
    ELSE SortedPairs(i, NsMap(i)) \o prefix_iterator(i + 1)

\* DBMap::get_all on the i-th prefix.  An entry of a later prefix is cut
\* at prefix.len() and handed to bincode::deserialize like the others:
\* decodes tells whether its bytes parse as (K, V); if not, `?` returns.
get_all(i, decodes) ==
    LET items   == prefix_iterator(i)
        foreign == \E k \in 1..Len(items) : items[k].ns # Namespaces[i]
    IN  IF foreign /\ ~decodes
        THEN [err |-> TRUE, pairs |-> <<>>]
        ELSE [err |-> FALSE, pairs |-> items]

\* DBMap::batch_insert: the puts of one WriteBatch, in order
RECURSIVE batch_insert(_, _)
batch_insert(m, kvs) ==
    IF kvs = <<>>
    THEN m
    ELSE batch_insert(insert(m, Head(kvs)[1], Head(kvs)[2]), Tail(kvs))

\* DBMap::batch_remove: the deletes of one WriteBatch
RECURSIVE batch_remove(_, _)
batch_remove(m, keys) ==
    IF keys = <<>>
    THEN m
    ELSE batch_remove(remove(m, Head(keys)), Tail(keys))

KeyValues == StoreKeys \X StoreValues

Batches == UNION {[1..n -> KeyValues] : n \in 1..MaxBatch}

KeyLists == UNION {[1..n -> StoreKeys] : n \in 1..MaxBatch}

\* the keys of a batch, in order
KeysOf(kvs) == [k \in 1..Len(kvs) |-> kvs[k][1]]

NoBatch == [ns |-> 0, keys |-> <<>>, before |-> EmptyMap]

NoGot == [ns |-> 0, err |-> FALSE, pairs |-> <<>>]

StoreHistInit == [batch |-> NoBatch, got |-> NoGot]

InitStore ==
    /\ network_height = EmptyMap
    /\ unspent_records = EmptyMap
    /\ mori_nodes = EmptyMap
    /\ filter = MoriNewFilter
    /\ tx = <<>>
    /\ rx_open = TRUE
    /\ dispatcher = Waiting
    /\ chain = EmptyMap
    /\ tip = 0
    /\ sync = SyncIdle
    /\ hist = StoreHistInit

\* the i-th namespace becomes m, the others stay
SetNs(i, m) ==
    /\ mori_nodes'      = IF i = 1 THEN m ELSE mori_nodes
    /\ network_height'  = IF i = 2 THEN m ELSE network_height
    /\ unspent_records' = IF i = 3 THEN m ELSE unspent_records
    /\ UNCHANGED <<filter, chanVars, chainVars, sync>>
    /\ UNCHANGED <<nodeVars, boardVars>>

StoreInsert(i, k, v) ==
    /\ SetNs(i, insert(NsMap(i), k, v))
    /\ hist' = StoreHistInit

StoreBatchInsert(i, kvs) ==
    /\ SetNs(i, batch_insert(NsMap(i), kvs))
    /\ hist' = [batch |-> [ns |-> i, keys |-> KeysOf(kvs), before |-> NsMap(i)],
                got   |-> NoGot]

StoreRemove(i, k) ==
    /\ SetNs(i, remove(NsMap(i), k))
    /\ hist' = StoreHistInit

StoreBatchRemove(i, keys) ==
    /\ SetNs(i, batch_remove(NsMap(i), keys))
    /\ hist' = StoreHistInit

\* DBMap::pop_front on the i-th prefix: the key the first item decodes to
\* is removed under this prefix, so a namespace with entries loses its
\* first one and an empty namespace loses nothing
StorePopFront(i) ==
    /\ SetNs(i, pop_front(NsMap(i)).map)
    /\ hist' = StoreHistInit

StoreGetAll(i, decodes) ==
    /\ SetNs(i, NsMap(i))
    /\ hist' = [batch |-> NoBatch,
                got   |-> [ns    |-> i,
                           err   |-> get_all(i, decodes).err,
                           pairs |-> get_all(i, decodes).pairs]]

(***************************************************************************)
(* Claims about the Keyed Store (SpecStore)                                *)
(***************************************************************************)
\* C17: after any sequence of insert, batch_insert, remove, batch_remove
\* and pop_front over the namespaces, get_all on a namespace returns exactly
\* the pairs that namespace holds, in ascending key order, and no entry of
\* another namespace; and batch_remove of the keys just batch_inserted
\* leaves the namespace as it was before the batch_insert.
C17_GetAllIsolated ==
    [][/\ \A i \in NsIdx, decodes \in BOOLEAN :
              StoreGetAll(i, decodes)
                  => (/\ ~hist'.got.err
                      /\ hist'.got.pairs = SortedPairs(i, NsMap(i)))
       /\ \A i \in NsIdx, keys \in KeyLists :
              (StoreBatchRemove(i, keys) /\ hist.batch.ns = i /\ hist.batch.keys = keys)
                  => NsMap(i)' = hist.batch.before]_vars

(***************************************************************************)
(* SpecFilter: a TransitionFilter built by add_program and add_function    *)
(* calls from TransitionFilter::new(), and filter_block on a block.  The   *)
(* block is kept in chain[0] and the result in sync.transitions.           *)
(***************************************************************************)
Programs == {MoriProgram, "credits.aleo"}

Functions == {"vote", "open_game", "transfer_private"}

FilterBlocks ==
    TransitionBlocks
        \cup {Block({}, <<>>,
                    <<Transaction(TRUE, <<VoteTransition(Output("bad", NoVote)),
                                          OtherTransition("credits.aleo", "transfer_private"),
                                          OpenTransition(<<1>>)>>),
                      Transaction(FALSE, <<OpenTransition(<<2>>)>>),
                      Transaction(TRUE, <<OtherTransition(MoriProgram, "transfer_private"),
                                          OtherTransition("credits.aleo", "vote"),
                                          OpenTransition(<<1>>)>>)>>)}

InitFilter ==
    /\ network_height = EmptyMap
    /\ unspent_records = EmptyMap
    /\ mori_nodes = EmptyMap
    /\ filter = TransitionFilter(<<>>, <<>>)
    /\ tx = <<>>
    /\ rx_open = TRUE
    /\ dispatcher = Waiting
    /\ chain = EmptyMap
    /\ tip = 0
    /\ sync = SyncIdle
    /\ hist = HistInit

\* TransitionFilter::add_program
AddProgram(program_id) ==
    /\ Len(filter.program_ids) < MaxFilterNames
    /\ filter' = [filter EXCEPT !.program_ids = Append(@, program_id)]
    /\ sync' = SyncIdle
    /\ chain' = EmptyMap
    /\ UNCHANGED <<storeVars, chanVars, tip, hist>>
    /\ UNCHANGED <<nodeVars, boardVars>>

\* TransitionFilter::add_function
AddFunction(function_name) ==
    /\ Len(filter.function_names) < MaxFilterNames
    /\ filter' = [filter EXCEPT !.function_names = Append(@, function_name)]
    /\ sync' = SyncIdle
    /\ chain' = EmptyMap
    /\ UNCHANGED <<storeVars, chanVars, tip, hist>>
    /\ UNCHANGED <<nodeVars, boardVars>>

\* self.filter.filter_block(block)
FilterBlock(block) ==
    /\ chain' = insert(EmptyMap, 0, block)
    /\ sync' = [SyncIdle EXCEPT !.pc = "filtered", !.transitions = filter_block(filter, block)]
    /\ UNCHANGED <<storeVars, filter, chanVars, tip, hist>>
    /\ UNCHANGED <<nodeVars, boardVars>>

(***************************************************************************)
(* Claims about filter_block (SpecFilter)                                  *)
(***************************************************************************)
\* the places of the transitions of a block: <<transaction, transition>>
Positions(block) ==
    UNION {{<<a, b>> : b \in 1..Len(block.transactions[a].transitions)} :
              a \in 1..Len(block.transactions)}

\* block order
Before(p, q) == p[1] < q[1] \/ (p[1] = q[1] /\ p[2] < q[2])

TransitionAt(block, p) == block.transactions[p[1]].transitions[p[2]]

\* the places the claim wants: accepted transaction, program id in the
\* program allow-set, function name in the function allow-set
Wanted(f, block) ==
    {p \in Positions(block) :
        /\ block.transactions[p[1]].accepted
        /\ \E i \in 1..Len(f.program_ids) :
               f.program_ids[i] = TransitionAt(block, p).program_id
        /\ \E i \in 1..Len(f.function_names) :
               f.function_names[i] = TransitionAt(block, p).function_name}

\* res is exactly the wanted transitions, in block order
ExactlyWanted(f, block, res) ==
    /\ Len(res) = Cardinality(Wanted(f, block))
    /\ \A p \in Wanted(f, block) :
           res[Cardinality({q \in Wanted(f, block) : Before(q, p)}) + 1]
               = TransitionAt(block, p)

\* C16: filter_block(block) returns exactly the transitions of accepted
\* transactions whose program id and function name are in the two
\* allow-sets, in block order, and changes no state; with an empty
\* allow-set it returns nothing.
C16_FilterBlockExact ==
    [][\A b \in FilterBlocks :
           FilterBlock(b)
               => (/\ ExactlyWanted(filter, b, sync'.transitions)
                   /\ (filter.program_ids = <<>> \/ filter.function_names = <<>>)
                          => sync'.transitions = <<>>
                   /\ UNCHANGED <<filter, storeVars, chanVars>>)]_vars

\* C16 witness: a filter with both allow-sets filled kept two or more
\* transitions of a block and dropped others, one of them of a transaction
\* that was not accepted.
C16_Witness ==
    /\ sync.pc = "filtered"
    /\ filter.program_ids # <<>>
    /\ filter.function_names # <<>>
    /\ Len(sync.transitions) >= 2
    /\ Len(sync.transitions) < Cardinality(Positions(chain[0]))
    /\ \E a \in 1..Len(chain[0].transactions) : ~chain[0].transactions[a].accepted

(***************************************************************************)
(* Claims about check_and_add_vote (SpecNode)                              *)
(***************************************************************************)
Called == last.calls > 0

Threshold(n) == n.valid_cnt \div 2

OpenLeaf(n) == n.game_status = 0 /\ n.node_type = 0

\* C1: on an OPEN/LEAF node whose tally started empty, a call reports
\* 'decided' if and only if it is the call at which the number of accepted
\* votes first reaches floor(valid_cnt / 2).  Stated for nodes whose
\* threshold is at least 1, where "first reaches" is a call.
C1_DecidedIffFirstReachesThreshold ==
    (Called /\ OpenLeaf(last.before) /\ Threshold(last.before) >= 1)
        => (last.ret <=> (/\ Len(last.before.votes) < Threshold(last.before)
                          /\ Len(node.votes) = Threshold(last.before)))

\* C3: a vote whose mov is not in valid_movs returns 'not decided' and
\* leaves every field of the node as it was.
C3_InvalidMovIsIgnored ==
    (Called /\ ~Contains(last.before.valid_movs, last.vote.mov))
        => (~last.ret /\ node = last.before)

\* C3 witness: a vote for a move outside a non-empty valid_movs was handled
\* by a node that already holds a vote.
C3_Witness ==
    /\ Called
    /\ last.before.valid_movs # <<>>
    /\ ~Contains(last.before.valid_movs, last.vote.mov)
    /\ Len(last.before.votes) >= 1

\* C4: on a node that is not OPEN/LEAF a call returns 'not decided' and
\* leaves the tally unchanged, even for a valid move below the threshold.
C4_ClosedNodeKeepsTally ==
    (Called /\ ~OpenLeaf(last.before))
        => (~last.ret /\ node.votes = last.before.votes)

\* C5: the tally never exceeds valid_cnt; a vote is appended only while the
\* tally is below floor(valid_cnt / 2), so the tally never passes it.
C5_TallyCapped ==
    /\ Len(node.votes) <= node.valid_cnt
    /\ Len(node.votes) <= Threshold(node)
    /\ (Called /\ node.votes # last.before.votes)
           => Len(last.before.votes) < Threshold(last.before)

\* C5 witness: a valid vote reached a node whose tally was already at a
\* threshold of at least 1, and was not appended.
C5_Witness ==
    /\ Called
    /\ Contains(last.before.valid_movs, last.vote.mov)
    /\ Threshold(last.before) >= 1
    /\ Len(last.before.votes) = Threshold(last.before)
    /\ node.votes = last.before.votes

(***************************************************************************)
(* Claims about handle_vote (SpecVote)                                     *)
(***************************************************************************)
\* C2: among the votes handled for one node id, at most one reports
\* 'decided', and at most one makes handle_vote send MoveToNext requests.
\* Stated for the stored nodes whose threshold is at least 1.
C2_DecisionFiresOnce ==
    \A id \in NodeIds :
        (contain(mori_nodes, id) /\ Threshold(mori_nodes[id]) >= 1)
            => (hist.fired[id] <= 1 /\ hist.enq[id] <= 1)

\* C12: whenever handle_vote finds the node of the vote in mori_nodes and
\* runs check_and_add_vote, the node that call leaves (with the vote it
\* appended, if any) is what mori_nodes holds when handle_vote returns,
\* whether or not the Move Resolver or the sends succeeded.
C12_NodeWrittenBack ==
    [][\A t \in VoteTransitions, reply \in MoveReplies :
           (/\ HandleVote(t, reply)
            /\ t.output.kind = "vote"
            /\ contain(mori_nodes, t.output.vote.node_id))
               => LET stored == mori_nodes[t.output.vote.node_id]
                  IN  /\ contain(mori_nodes', stored.node_id)
                      /\ mori_nodes'[stored.node_id]
                             = check_and_add_vote(stored, t.output.vote).node]_vars

\* C21: every MoveToNext request handle_vote puts on the channel carries a
\* successor descriptor that is not a pass (validMoves # [64]).
C21_NoPassEnqueued ==
    \A k \in 1..Len(tx) : tx[k].kind = "MoveToNext" => ~is_pass(tx[k].mov)

(***************************************************************************)
(* Claims about the fee records (SpecCredits)                              *)
(***************************************************************************)
\* C7: once handle_credits has processed a block that reports serial
\* number s as spent, pop_front never returns the record with serial s.
C7_SpentNeverPopped == ~hist.last_pop.spent

\* C15: the pool is FIFO: the pop_front of the dispatcher reports 'none'
\* exactly when the pool is empty, and otherwise removes and returns the
\* record that was inserted earliest among those present.
C15_PoolIsFifo ==
    [][\A remote_ok \in BOOLEAN, submit_ok \in BOOLEAN :
           (Execute(remote_ok, submit_ok) /\ BuildInputs(Head(tx), remote_ok) = "ok")
               => LET popped == pop_front(unspent_records)
                  IN  /\ popped.some <=> (unspent_records # EmptyMap)
                      /\ popped.some =>
                             /\ popped.key = Head(hist.order)
                             /\ unspent_records' = remove(unspent_records, popped.key)]_vars

\* C27: no fee record is handed out twice: over the run of the sync loop
\* and the dispatcher, sync() calls that fail midway and later process the
\* same blocks again included, pop_front returns each serial number at most
\* once.
C27_NoRecordHandedOutTwice ==
    [][\A remote_ok \in BOOLEAN, submit_ok \in BOOLEAN :
           (/\ Execute(remote_ok, submit_ok)
            /\ BuildInputs(Head(tx), remote_ok) = "ok"
            /\ pop_front(unspent_records).some)
               => pop_front(unspent_records).key \notin hist.pops]_vars

(***************************************************************************)
(* Claims about execute_program (SpecDispatch)                             *)
(***************************************************************************)
\* C13: a request handled while the pool is empty fails with no
\* transaction submitted, is not put back on the queue (the queue is left
\* with the requests behind it), the pool stays empty and the dispatcher
\* goes on to the next request.
C13_EmptyPoolFailsOneRequest ==
    [][\A remote_ok \in BOOLEAN, submit_ok \in BOOLEAN :
           (Execute(remote_ok, submit_ok) /\ unspent_records = EmptyMap)
               => (/\ hist'.exec \notin {"submitted", "submit_err"}
                   /\ unspent_records' = EmptyMap
                   /\ tx' = Tail(tx)
                   /\ rx_open')]_vars

\* C14: while the channel is open no request ends the dispatcher loop,
\* whatever its content and whatever fails while it is handled.
C14_NoRequestEndsTheLoop == [][rx_open => rx_open']_vars

(***************************************************************************)
(* Claims about sync and set_cur_height (Spec)                             *)
(***************************************************************************)
Max(a, b) == IF a >= b THEN a ELSE b

\* a sync() call that read cur and latest returns Ok in this step
SyncReturnsOk == sync.pc = "batch" /\ sync'.pc = "idle" /\ sync'.ret = "ok"

\* C8: a sync() called with checkpoint C >= latest height L is a no-op: it
\* returns with the checkpoint, the Game-Node namespace and the Fee-Record
\* namespace as they were.
C8_NoNewBlocksIsNoOp ==
    [][(SyncReturnsOk /\ sync.cur >= sync.latest)
           => (/\ Cur' = Cur
               /\ mori_nodes' = mori_nodes
               /\ unspent_records' = unspent_records)]_vars

\* C9: the stored checkpoint never decreases, and set_cur_height(h) leaves
\* it equal to max(previous, h).
C9_CheckpointMonotone ==
    [][/\ Cur' >= Cur
       /\ \A height \in 0..MaxFromHeight :
              SetCurHeight(height) => Cur' = Max(Cur, height)]_vars

\* C10: when the handler of a transition returns an error, every later
\* transition of the same batch is still handed to its handler: no batch
\* leaves a transition behind.
C10_ErrorSkipsOneTransition == sync.undispatched = 0

\* a sync() call returns in this step
SyncReturns(ret) == sync.pc # "idle" /\ sync'.pc = "idle" /\ sync'.ret = ret

\* C11: a sync() that read checkpoint C and latest height L and whose block
\* fetches all succeeded ends with the stored checkpoint = L, whatever the
\* handlers and handle_credits returned; a sync() whose latest-height query
\* or block fetch fails returns the error at once, the checkpoint still C.
C11_CheckpointAfterSync ==
    [][/\ SyncReturns("ok") => Cur' = sync.latest
       /\ SyncReturns("err") => (Cur' = Cur /\ Cur' = sync'.cur)
       /\ SyncLatestFails => (Cur' = Cur /\ Cur' = sync'.cur /\ sync'.pc = "idle")]_vars

\* C11 witness: a sync() over new blocks logged an error of a handler or of
\* handle_credits and returned Ok with the checkpoint at the latest height.
C11_Witness ==
    /\ sync.pc = "idle"
    /\ sync.ret = "ok"
    /\ sync.errors >= 1
    /\ sync.cur < sync.latest
    /\ Cur = sync.latest

\* the function names ts_handler has a handler for
HandledNames == {"vote", "move_to_next", "open_game"}

\* C18: with the filter as Mori::new builds it, every transition of
\* mori.aleo named vote, move_to_next or open_game in an accepted
\* transaction of a fetched block is passed to its handler.  Stated for the
\* step before the handlers: every such transition of the block is in the
\* list sync() collects for ts_handler.
C18_MoriTransitionsReachHandlers ==
    [][(SyncBlock /\ filter = MoriNewFilter)
           => LET txs == BlockAt(sync.h).transactions
              IN  \A a \in 1..Len(txs) :
                      \A b \in 1..Len(txs[a].transitions) :
                          (/\ txs[a].accepted
                           /\ txs[a].transitions[b].program_id = MoriProgram
                           /\ txs[a].transitions[b].function_name \in HandledNames)
                              => \E j \in 1..Len(sync'.transitions) :
                                     sync'.transitions[j] = txs[a].transitions[b]]_vars

\* the legal moves the Move Resolver reports for the nodes of the ledger
ResolverMoves == <<5, 6>>

\* C19: a node upserted by handle_open or handle_move carries the legal
\* moves of the Move Resolver, so that the first vote for one of them on
\* the fresh OPEN/LEAF node with valid_cnt >= 2 is accepted into the tally.
\* (Every node of mori_nodes was upserted by one of the two handlers.)
C19_FreshNodeAcceptsFirstVote ==
    [][SyncHandle
           => LET t == sync.transitions[sync.i]
              IN  (/\ t.function_name = "vote"
                   /\ t.output.kind = "vote"
                   /\ contain(mori_nodes, t.output.vote.node_id)
                   /\ OpenLeaf(mori_nodes[t.output.vote.node_id])
                   /\ mori_nodes[t.output.vote.node_id].valid_cnt >= 2
                   /\ mori_nodes[t.output.vote.node_id].votes = <<>>
                   /\ Contains(ResolverMoves, t.output.vote.mov))
                      => (/\ mori_nodes'[t.output.vote.node_id].valid_movs = ResolverMoves
                          /\ mori_nodes'[t.output.vote.node_id].votes = <<t.output.vote>>)]_vars

\* C20: in a sync() that read checkpoint C and latest height L, the k-th
\* range asked of get_blocks is [C + 45(k-1), min(C + 45k, L)): the ranges
\* are ascending, disjoint, non-empty, span at most 45 heights and follow
\* one another without a gap; the heights handed on are C, C+1, ... each
\* once; and a sync() with C < L that returns Ok has asked for ranges up
\* to L and observed every height of [C, L) exactly once.
C20_BatchesPartition ==
    /\ \A k \in 1..Len(sync.ranges) :
           /\ sync.ranges[k] = <<sync.cur + BATCH_SIZE * (k - 1),
                                 Min(sync.cur + BATCH_SIZE * k, sync.latest)>>
           /\ sync.ranges[k][1] < sync.ranges[k][2]
           /\ sync.ranges[k][2] - sync.ranges[k][1] <= BATCH_SIZE
    /\ \A k \in 1..Len(sync.observed) : sync.observed[k] = sync.cur + k - 1
    /\ (sync.pc = "idle" /\ sync.ret = "ok" /\ sync.cur < sync.latest)
           => (/\ sync.ranges # <<>>
               /\ sync.ranges[1][1] = sync.cur
               /\ sync.ranges[Len(sync.ranges)][2] = sync.latest
               /\ Len(sync.observed) = sync.latest - sync.cur)

\* C20 witness: a sync() returned Ok after two or more ranges, the last of
\* them shorter than 45 heights.
C20_Witness ==
    /\ sync.pc = "idle"
    /\ sync.ret = "ok"
    /\ Len(sync.ranges) >= 2
    /\ sync.ranges[Len(sync.ranges)][2] - sync.ranges[Len(sync.ranges)][1] < BATCH_SIZE
    /\ Len(sync.observed) = sync.latest - sync.cur

\* C22: whenever handle_move handles an event whose parent id P is in
\* mori_nodes, P is internal (node_type 1) when the handler returns, whether
\* or not the child's node could be fetched and stored; and a vote handled
\* for an internal node is not reported as decided.
C22_ParentMarkedInternal ==
    [][SyncHandle
           => LET t == sync.transitions[sync.i]
              IN  /\ (/\ t.function_name = "move_to_next"
                      /\ t.finalize.some
                      /\ Len(t.finalize.values) >= 1
                      /\ contain(mori_nodes, t.finalize.values[1]))
                         => (/\ contain(mori_nodes', t.finalize.values[1])
                             /\ mori_nodes'[t.finalize.values[1]].node_type = 1)
                  /\ (/\ t.function_name = "vote"
                      /\ t.output.kind = "vote"
                      /\ contain(mori_nodes, t.output.vote.node_id)
                      /\ mori_nodes[t.output.vote.node_id].node_type = 1)
                         => hist'.fired = hist.fired]_vars

(***************************************************************************)
(* Claims about GameState (SpecBoard)                                      *)
(***************************************************************************)
\* C6: for every sequence v of 64 values in {-1, 0, 1},
\* from_vec_i8(v).to_vec_i8() = v.
C6_RoundTrip == (bpc = "unpacked") => (out_vec = vec)

(***************************************************************************)
(* Specifications                                                          *)
(***************************************************************************)
NextNode == \E vote \in Votes : CheckAndAddVote(vote)

InitSpecNode == InitNode /\ IdleBoard /\ IdleMori

SpecNode == InitSpecNode /\ [][NextNode]_vars

NextBoard == Pack \/ Unpack

InitSpecBoard == InitBoard /\ IdleNode /\ IdleMori

SpecBoard == InitSpecBoard /\ [][NextBoard]_vars

NextVote == \E t \in VoteTransitions, reply \in MoveReplies : HandleVote(t, reply)

InitSpecVote == InitVote /\ IdleNode /\ IdleBoard

SpecVote == InitSpecVote /\ [][NextVote]_vars

\* the handlers of sync on the events of the nodes
NextNodes ==
    \/ \E t \in VoteTransitions, reply \in MoveReplies : HandleVote(t, reply)
    \/ \E t \in OpenEvents : \E remote \in RemoteReplies(RemoteId(t)) : HandleOpen(t, remote)
    \/ \E t \in MoveEvents : \E remote \in RemoteReplies(RemoteId(t)) : HandleMove(t, remote)

InitSpecNodes == InitVote /\ IdleNode /\ IdleBoard

SpecNodes == InitSpecNodes /\ [][NextNodes]_vars

\* the steps of the vote handlings of the threads that run sync()
NextRace ==
    \/ \E th \in SyncThreads, vote \in Votes : VoteFetch(th, vote)
    \/ \E th \in SyncThreads, reply \in MoveReplies : VoteMutate(th, reply)
    \/ \E th \in SyncThreads : VoteWriteBack(th)

InitSpecRace == InitRace /\ IdleNode /\ IdleBoard

SpecRace == InitSpecRace /\ [][NextRace]_vars

\* the calls on one node and the requests built from it
NextRequest ==
    \/ \E vote \in Votes : CheckAndAddVote(vote)
    \/ BuildRequest

InitSpecRequest == InitNode /\ IdleBoard /\ InitRequest

SpecRequest == InitSpecRequest /\ [][NextRequest]_vars

\* the sync thread, the dispatcher thread and the front end
(***************************************************************************)
(* SpecQueueFair: SpecQueue with the scheduling of the three parties.  The *)
(* sync thread and the dispatcher thread are threads of their own that are *)
(* never parked for good, and the calls they make return, so each takes    *)
(* its next step when it stays enabled.  A blocking_send takes its slot    *)
(* when the queue has room again and again: the channel hands freed slots  *)
(* to the waiting senders in the order they arrived.                       *)
(***************************************************************************)
\* a step of the sync thread other than a blocking_send that returns Ok
SyncThreadStep ==
    \/ SyncBegin
    \/ SyncBatch
    \/ SyncBlock
    \/ SyncDecide
    \/ SyncSendFails
    \/ SyncBatchDone
    \/ SyncFinish

\* the handler of the dispatcher returns
DispatcherReturns ==
    \E remote_ok \in BOOLEAN, submit_ok \in BOOLEAN : DispatcherHandle(remote_ok, submit_ok)

QueueFairness ==
    /\ WF_vars(SyncThreadStep)
    /\ SF_vars(SyncSend)
    /\ WF_vars(DispatcherRecv)
    /\ WF_vars(DispatcherReturns)

\* the requests a queue can hold
Requests ==
    {OpenGame} \cup {MoveToNext(r.movs[k]) : k \in 1..2, r \in {q \in QueueReplies : Len(q.movs) = 2}}
               \cup {MoveToNext(r.movs[1]) : r \in {q \in QueueReplies : Len(q.movs) >= 1}}

\* C29: under that scheduling a blocking_send that waits on a full queue
\* eventually returns, every sync() call eventually returns, and every
\* request in the queue is eventually the one the dispatcher has received.
C29_NoDeadlock ==
    /\ Blocked ~> ~Blocked
    /\ (sync.pc # "idle") ~> (sync.pc = "idle")
    /\ \A r \in Requests : (\E k \in 1..Len(tx) : tx[k] = r) ~> (dispatcher = r)

NextQueue ==
    \/ SyncBegin
    \/ SyncBatch
    \/ SyncBlock
    \/ SyncDecide
    \/ SyncSend
    \/ SyncSendFails
    \/ SyncBatchDone
    \/ SyncFinish
    \/ OpenGameRequest
    \/ DispatcherRecv
    \/ \E remote_ok \in BOOLEAN, submit_ok \in BOOLEAN : DispatcherHandle(remote_ok, submit_ok)

InitSpecQueue == InitQueue /\ IdleNode /\ IdleBoard

SpecQueue == InitSpecQueue /\ [][NextQueue]_vars

SpecQueueFair == InitSpecQueue /\ [][NextQueue]_vars /\ QueueFairness

(***************************************************************************)
(* SpecResync: sync() calls over a ledger whose block 0 holds one vote for *)
(* node 1, with get_blocks failing at will.  Node 1 is stored with legal   *)
(* moves and the filter lets the vote through.                             *)
(***************************************************************************)
OneVoteBlock ==
    Block({}, <<>>,
          <<Transaction(TRUE, <<VoteTransition(Output("vote", Vote("aleo1a", 1, 5)))>>)>>)

InitResync ==
    /\ network_height = EmptyMap
    /\ unspent_records = EmptyMap
    /\ mori_nodes \in {insert(EmptyMap, 1, GameNode(1, 0, 0, 0, n, <<5, 6>>, <<>>)) :
                          n \in {2, 4}}
    /\ filter = DispatchFilter
    /\ tx = <<>>
    /\ rx_open = TRUE
    /\ dispatcher = Waiting
    /\ chain = insert(EmptyMap, 0, OneVoteBlock)
    /\ tip \in {1, BATCH_SIZE + 1}
    /\ sync = SyncIdle
    /\ hist = HistInit

\* get_blocks(start, end)? fails, as long as fewer than MaxVoteEvents votes
\* were handled
SyncAbort ==
    /\ hist.votes < MaxVoteEvents
    /\ SyncFetchFails

\* the vote transitions of accepted transactions of the ledger that carry
\* vote v, as <<height, place>>
LedgerVotes(v) ==
    UNION {{<<h, p>> : p \in {q \in Positions(chain[h]) :
                                 /\ chain[h].transactions[q[1]].accepted
                                 /\ TransitionAt(chain[h], q).function_name = "vote"
                                 /\ TransitionAt(chain[h], q).output = Output("vote", v)}} :
              h \in DOMAIN chain}

\* C28: across sync() calls, those that abort on a ledger failure after
\* some batches were handled included, each vote transition of the ledger
\* adds at most one entry to the tally of its node and triggers at most one
\* decision.
C28_VotesAppliedOnce ==
    \A id \in DOMAIN mori_nodes :
        /\ \A v \in Votes :
               Cardinality({k \in 1..Len(mori_nodes[id].votes) : mori_nodes[id].votes[k] = v})
                   <= Cardinality(LedgerVotes(v))
        /\ hist.fired[id]
               <= Cardinality(UNION {LedgerVotes(v) : v \in {w \in Votes : w.node_id = id}})

\* the sync loop over a ledger that fails at will
NextResync ==
    \/ SyncBegin
    \/ SyncLatestFails
    \/ SyncBatch
    \/ SyncAbort
    \/ SyncBlock
    \/ SyncHandle
    \/ SyncBatchDone
    \/ SyncFinish

InitSpecResync == InitResync /\ IdleNode /\ IdleBoard

SpecResync == InitSpecResync /\ [][NextResync]_vars

\* the sync loop over a ledger of transitions
Next ==
    \/ \E b \in TransitionBlocks, k \in GrowSteps : LedgerGrow(b, k)
    \/ \E height \in 0..MaxFromHeight : SetCurHeight(height)
    \/ SyncBegin
    \/ SyncLatestFails
    \/ SyncBatch
    \/ SyncFetchFails
    \/ SyncBlock
    \/ SyncHandle
    \/ SyncBatchDone
    \/ SyncFinish

Init == InitMori /\ IdleNode /\ IdleBoard

Spec == Init /\ [][Next]_vars

\* the sync loop, the front end and the dispatcher over a ledger of records
NextCredits ==
    \/ \E b \in CreditBlocks, k \in GrowSteps : LedgerGrow(b, k)
    \/ SyncBegin
    \/ SyncLatestFails
    \/ SyncBatch
    \/ SyncFetchFails
    \/ SyncBlock
    \/ SyncBatchDone
    \/ SyncFinish
    \/ OpenGameRequest
    \/ \E remote_ok \in BOOLEAN, submit_ok \in BOOLEAN : Execute(remote_ok, submit_ok)

InitCredits == IdleMori /\ IdleNode /\ IdleBoard

SpecCredits == InitCredits /\ [][NextCredits]_vars

\* the operations of the three DBMaps
NextStore ==
    \/ \E i \in NsIdx, k \in StoreKeys, v \in StoreValues : StoreInsert(i, k, v)
    \/ \E i \in NsIdx, kvs \in Batches : StoreBatchInsert(i, kvs)
    \/ \E i \in NsIdx, k \in StoreKeys : StoreRemove(i, k)
    \/ \E i \in NsIdx, keys \in KeyLists : StoreBatchRemove(i, keys)
    \/ \E i \in NsIdx : StorePopFront(i)
    \/ \E i \in NsIdx, decodes \in BOOLEAN : StoreGetAll(i, decodes)

InitSpecStore == InitStore /\ IdleNode /\ IdleBoard

SpecStore == InitSpecStore /\ [][NextStore]_vars

\* a filter under construction and use
NextFilter ==
    \/ \E p \in Programs : AddProgram(p)
    \/ \E f \in Functions : AddFunction(f)
    \/ \E b \in FilterBlocks : FilterBlock(b)

InitSpecFilter == InitFilter /\ IdleNode /\ IdleBoard

SpecFilter == InitSpecFilter /\ [][NextFilter]_vars

\* the dispatcher, the front end and the vote handler
NextDispatch ==
    \/ \E reply \in DescriptorReplies : HandleVote(DecidingVote, reply)
    \/ OpenGameRequest
    \/ \E remote_ok \in BOOLEAN, submit_ok \in BOOLEAN : Execute(remote_ok, submit_ok)

InitSpecDispatch == InitDispatch /\ IdleNode /\ IdleBoard

SpecDispatch == InitSpecDispatch /\ [][NextDispatch]_vars

====
